---------------------------- MODULE Spec2Model ----------------------------
(***************************************************************************)
(* A model of run.py: the UserManager (allowed principals), the            *)
(* ProjectManager (the running / paused registries, the per-owner project  *)
(* list, child processes, the periodic global restart) and the handlers of *)
(* PythonHostingBot that drive them.                                       *)
(*                                                                         *)
(* Conventions.                                                            *)
(*  - A Python dict that the code iterates (running_processes,             *)
(*    user_projects) is a sequence of [k, v] entries in insertion order; a *)
(*    dict that is only indexed (paused_processes, waiting_for_main_file)  *)
(*    is a function whose DOMAIN is its key set.                           *)
(*  - An optional value (end_time, duration_days) is <<>> for None and     *)
(*    <<x>> for x.                                                         *)
(*  - A project directory PROJECTS_DIR/<uid>/<name> is the pair            *)
(*    <<uid, name>>; a file in it is <<dir, script>>.                      *)
(*  - A subprocess.Popen object is a handle h \in Handles; procs[h] is     *)
(*    "alive" or "dead". procs follows the objects the registries refer    *)
(*    to; an object no registry refers to any more is dropped when the     *)
(*    operation that let go of it ends, alive or not: no code reaches it   *)
(*    again. A handle is a name only: when an operation ends the objects   *)
(*    still referred to are renumbered 1, 2, ... in the order the          *)
(*    registries list them, so a handle identifies an object within one    *)
(*    operation and not from one state to the next.                        *)
(*  - Time is counted in ticks, TicksPerDay ticks to a day.                *)
(***************************************************************************)
EXTENDS Integers, Sequences, FiniteSets, TLC

\* ------------------------------------------------------------------ bounds
MaxHandles == 8
MaxTime == 3
TicksPerDay == 2
MaxNewRecords == 1
MaxUserId == 5

\* ------------------------------------------------------- program constants
\* ADMIN_IDS = [7761577562]: the one admin is principal 1 of the model.
ADMIN_IDS == {1}
\* MAX_SCRIPTS = 2
MAX_SCRIPTS == 2
\* the retry count of error_handler (while retries < 3)
MaxRetries == 3
\* None, where the code holds a user id or None
NoneId == 0

\* ------------------------------------------------------------ input domains
UserIds == 1 .. MaxUserId
\* chat 9 is a group chat; a private chat has the id of its user
GroupChat == 9
Chats == {1, 2, GroupChat}
ArchiveNames == {"app", "bot"}
\* the day counts of the duration buttons (0: "No Duration")
InitialDays == {0, 1, 3, 7}
ScriptNames == {"main", "worker"}
\* what an uploaded archive holds: no script at all, or every script
Archives == {{}, ScriptNames}
ProjectDirs == {1, 2} \X ArchiveNames
Handles == 1 .. MaxHandles
\* the day counts a duration callback can carry (0: no duration)
DayChoices == {0, 1}
NoDir == <<NoneId, "">>
DirSeq == << <<1, "app">>, <<1, "bot">>, <<2, "app">>, <<2, "bot">> >>

VARIABLES
    allowed_users,          \* UserManager.allowed_users
    running_processes,      \* ProjectManager.running_processes (ordered dict)
    paused_processes,       \* ProjectManager.paused_processes
    user_projects,          \* ProjectManager.user_projects (ordered dict of lists)
    waiting_for_main_file,  \* ProjectManager.waiting_for_main_file
    script_hashes,          \* ProjectManager.script_hashes
    keep_running,           \* ProjectManager.keep_running
    procs,                  \* the state of every Popen object
    disk,                   \* the files that exist under PROJECTS_DIR
    now,                    \* datetime.now(), in ticks
    sweep_pc,               \* where the global restart thread stands
    inflight,               \* the calls that threads are in the middle of
    last                    \* the operation that ran last, its argument and result

vars == <<allowed_users, running_processes, paused_processes, user_projects,
          waiting_for_main_file, script_hashes, keep_running, procs, disk, now,
          sweep_pc, inflight, last>>

\* ------------------------------------------------------------ dict helpers
Has(d, k) == \E i \in 1 .. Len(d) : d[i].k = k
Idx(d, k) == CHOOSE i \in 1 .. Len(d) : d[i].k = k
Get(d, k) == d[Idx(d, k)].v
Put(d, k, val) ==
    IF Has(d, k) THEN [d EXCEPT ![Idx(d, k)].v = val]
    ELSE Append(d, [k |-> k, v |-> val])
Del(d, k) == SelectSeq(d, LAMBDA e : e.k # k)
Keys(d) == {d[i].k : i \in 1 .. Len(d)}
Range(s) == {s[i] : i \in 1 .. Len(s)}
\* a function-dict with key k set / removed
FPut(f, k, val) == [x \in DOMAIN f \cup {k} |-> IF x = k THEN val ELSE f[x]]
FDel(f, k) == [x \in DOMAIN f \ {k} |-> f[x]]

NoLast == [op |-> "init", p |-> NoDir, n |-> 0, ret |-> "none"]

\* A call of stop_project a thread is in the middle of: its arguments, the
\* statement it stands at, its local process_info, the attempts error_handler
\* has used up, its result, and whether an exception was raised in it.
NoCall == [p |-> NoDir, chat |-> 0, at |-> "idle", info |-> <<>>, tries |-> 0,
           ret |-> "none", err |-> FALSE]
StopCall(p, chat) == [NoCall EXCEPT !.p = p, !.chat = chat, !.at = "check"]
\* the handler thread's call; the restart thread's snapshot, its position in
\* it, its call, the projects it has started again, whether a call of this
\* pass raised; whether terminate() went to a process a second time
NoCalls ==
    [stop |-> NoCall,
     sweep |-> [snap |-> <<>>, i |-> 0, call |-> NoCall, restarted |-> {}, err |-> FALSE],
     twice |-> FALSE]
Did(op, p, n, ret) == [op |-> op, p |-> p, n |-> n, ret |-> ret]

\* ============================================================ UserManager
\* remove_user with the admin test dropped
RemoveUserNoAdminTest(allowed, user_id) ==
    IF user_id \in allowed
    THEN [allowed |-> allowed \ {user_id}, ret |-> TRUE]
    ELSE [allowed |-> allowed, ret |-> FALSE]

\* UserManager.add_user
add_user(allowed, user_id) == allowed \cup {user_id}

\* UserManager.remove_user
remove_user(allowed, user_id) ==
    IF user_id \in allowed /\ user_id \notin ADMIN_IDS
    THEN [allowed |-> allowed \ {user_id}, ret |-> TRUE]
    ELSE [allowed |-> allowed, ret |-> FALSE]

\* UserManager.is_allowed
is_allowed(allowed, user_id) == user_id \in allowed


\* ========================================================== ProjectManager
\* What an operation's run depends on outside the program: the chats the
\* gateway cannot deliver to (bot.send_message raises), the processes whose
\* terminate() and kill() both raise, the files whose Popen raises, and the
\* projects whose dependency installation fails.
Env(down, fail, spawnfail, instfail) ==
    [down |-> down, fail |-> fail, spawnfail |-> spawnfail, instfail |-> instfail]
\* no fault, or one fault of one kind
SingleFaultEnvs(cs, hs, fs, ps) ==
    {Env({}, {}, {}, {})}
      \cup {Env({c}, {}, {}, {}) : c \in cs}
      \cup {Env({}, {h}, {}, {}) : h \in hs}
      \cup {Env({}, {}, {f}, {}) : f \in fs}
      \cup {Env({}, {}, {}, {p}) : p \in ps}

\* The manager's state as one value, with the result of the call made last:
\* "True", "False", or "raise" when the call let an exception out.
Mgr(run, pau, up, wait, pr) ==
    [run |-> run, pau |-> pau, up |-> up, wait |-> wait, procs |-> pr, ret |-> "none"]

HandlesOf(info) == Range(info.processes)
RunHandles(run) == UNION {HandlesOf(run[i].v) : i \in 1 .. Len(run)}
PausedHandles(pau) == UNION {HandlesOf(pau[p]) : p \in DOMAIN pau}
MinOf(S) == CHOOSE x \in S : \A y \in S : x <= y

\* The Popen objects the registries refer to, in the order they list them
\* (running_processes in insertion order, paused_processes by directory).
RECURSIVE RunRefs(_)
RunRefs(run) ==
    IF run = <<>> THEN <<>> ELSE Head(run).v.processes \o RunRefs(Tail(run))
RECURSIVE PausedRefs(_, _)
PausedRefs(pau, dirs) ==
    IF dirs = <<>> THEN <<>>
    ELSE (IF Head(dirs) \in DOMAIN pau THEN pau[Head(dirs)].processes ELSE <<>>)
           \o PausedRefs(pau, Tail(dirs))
RECURSIVE Uniq(_)
Uniq(seq) ==
    IF seq = <<>> THEN <<>>
    ELSE LET front == Uniq(SubSeq(seq, 1, Len(seq) - 1))
             x == seq[Len(seq)]
         IN IF x \in Range(front) THEN front ELSE Append(front, x)
PosIn(seq, x) == CHOOSE i \in 1 .. Len(seq) : seq[i] = x
RenameInfo(info, refs) ==
    [info EXCEPT !.processes = [i \in 1 .. Len(info.processes) |->
                                   PosIn(refs, info.processes[i])]]
\* A Popen object that no RunState refers to is out of the program's reach
\* and is dropped; the others are renumbered.
NormaliseWith(m, held) ==
    LET refs == Uniq(RunRefs(m.run) \o PausedRefs(m.pau, DirSeq) \o held)
    IN [m EXCEPT
          !.run = [i \in 1 .. Len(m.run) |->
                      [k |-> m.run[i].k, v |-> RenameInfo(m.run[i].v, refs)]],
          !.pau = [d \in DOMAIN m.pau |-> RenameInfo(m.pau[d], refs)],
          !.procs = [h \in Handles |->
                        IF h <= Len(refs) THEN m.procs[refs[h]] ELSE "free"]]
Normalise(m) == NormaliseWith(m, <<>>)
\* the manager's state as an operation finds it
CurM == Mgr(running_processes, paused_processes, user_projects,
            waiting_for_main_file, procs)

\* bot.send_message(chat_id, ...) as the last statement before `return ret`
Notify(m, chat, ret, env) ==
    [m EXCEPT !.ret = IF chat \in env.down THEN "raise" ELSE ret]

\* ProjectManager.get_user_id_by_chat_id
get_user_id_by_chat_id(up, chat) ==
    LET hits == {i \in 1 .. Len(up) :
                    \E j \in 1 .. Len(up[i].v) : up[i].v[j].chat_id = chat}
    IN IF hits = {} THEN NoneId ELSE up[MinOf(hits)].k

\* the main files of the owner's first record, whatever its project
FindAnyMainFiles(up, user_id, p) ==
    IF ~Has(up, user_id) THEN <<>>
    ELSE LET lst == Get(up, user_id)
         IN IF lst = <<>> THEN <<>> ELSE lst[1].main_files

\* run_project, lines 280-285: the main files of the owner's first record of p
FindMainFiles(up, user_id, p) ==
    IF ~Has(up, user_id) THEN <<>>
    ELSE LET lst == Get(up, user_id)
             hits == {j \in 1 .. Len(lst) : lst[j].project_dir = p}
         IN IF hits = {} THEN <<>> ELSE lst[MinOf(hits)].main_files

ProjectRecord(p, chat, main_files) ==
    [project_dir |-> p, chat_id |-> chat, main_files |-> main_files]

\* process.terminate(); process.wait(5); on an exception process.kill(),
\* whose own exception is swallowed: for every process of hs
Terminate(pr, hs, env) ==
    [h \in Handles |-> IF h \in hs \ env.fail THEN "dead" ELSE pr[h]]

\* stop_project where a pause leaves the entry in running_processes
StopProjectPauseKeepsEntry(m, p, chat, pause, env) ==
    IF Has(m.run, p)
    THEN LET process_info == Get(m.run, p)
             m1 == [m EXCEPT
                      !.procs = Terminate(m.procs, HandlesOf(process_info), env),
                      !.pau = IF pause THEN FPut(m.pau, p, process_info) ELSE m.pau,
                      !.run = IF pause THEN m.run ELSE Del(m.run, p)]
         IN IF pause THEN [m1 EXCEPT !.ret = "True"]
            ELSE Notify(m1, chat, "True", env)
    ELSE Notify(m, chat, "False", env)

\* stop_project that gives up, with the entry kept, when a process could be
\* neither terminated nor killed
StopProjectKeepsUnkillable(m, p, chat, pause, env) ==
    IF Has(m.run, p) /\ HandlesOf(Get(m.run, p)) \cap env.fail = {}
    THEN LET process_info == Get(m.run, p)
             m1 == [m EXCEPT
                      !.procs = Terminate(m.procs, HandlesOf(process_info), env),
                      !.pau = IF pause THEN FPut(m.pau, p, process_info) ELSE m.pau,
                      !.run = Del(m.run, p)]
         IN IF pause THEN [m1 EXCEPT !.ret = "True"]
            ELSE Notify(m1, chat, "True", env)
    ELSE Notify(m, chat, "False", env)

\* ProjectManager.stop_project, one attempt
stop_project_once(m, p, chat, pause, env) ==
    IF Has(m.run, p)
    THEN LET process_info == Get(m.run, p)
             m1 == [m EXCEPT
                      !.procs = Terminate(m.procs, HandlesOf(process_info), env),
                      !.pau = IF pause THEN FPut(m.pau, p, process_info) ELSE m.pau,
                      !.run = Del(m.run, p)]
         IN IF pause THEN [m1 EXCEPT !.ret = "True"]
            \* the notice fails: the handler at line 455 sends again and raises
            ELSE Notify(m1, chat, "True", env)
    ELSE Notify(m, chat, "False", env)

\* run_project, lines 327-343: one Popen per main file, in order. Gives the
\* process table, the processes launched and whether an exception ended it.
RECURSIVE Launch(_, _, _, _, _, _, _)
Launch(main_files, i, pr, acc, chat, env, dsk) ==
    IF i > Len(main_files) THEN [procs |-> pr, processes |-> acc, exc |-> FALSE]
    ELSE IF main_files[i] \notin dsk
         THEN \* not os.path.isfile: a notice, and on to the next file
              IF chat \in env.down
              THEN [procs |-> pr, processes |-> acc, exc |-> TRUE]
              ELSE Launch(main_files, i + 1, pr, acc, chat, env, dsk)
         ELSE LET free == {h \in Handles : pr[h] = "free"}
              IN IF main_files[i] \in env.spawnfail \/ free = {}
                 THEN [procs |-> pr, processes |-> acc, exc |-> TRUE]
                 ELSE LET h == MinOf(free)
                      IN Launch(main_files, i + 1, [pr EXCEPT ![h] = "alive"],
                                Append(acc, h), chat, env, dsk)

\* end_time = datetime.now() + timedelta(days=duration_days) if duration_days else None
EndTime(duration_days, t) ==
    IF duration_days # <<>> /\ duration_days[1] # 0
    THEN <<t + duration_days[1] * TicksPerDay>> ELSE <<>>

\* (end_time - datetime.now()).days if end_time else None
RemainingDays(end_time, t) ==
    IF end_time # <<>> THEN <<(end_time[1] - t) \div TicksPerDay>> ELSE <<>>

RunState(processes, chat, end_time, user_id, main_files, auto_restart) ==
    [processes |-> processes, chat_id |-> chat, end_time |-> end_time,
     user_id |-> user_id, main_files |-> main_files, auto_restart |-> auto_restart]

\* run_project, lines 277-290: whether the main files come from the caller's
\* onboarding session, and the main files resolved
FromSession(m, p, chat) ==
    LET user_id == get_user_id_by_chat_id(m.up, chat)
    IN FindMainFiles(m.up, user_id, p) = <<>> /\ user_id \in DOMAIN m.wait
ResolveMainFiles(m, p, chat) ==
    LET user_id == get_user_id_by_chat_id(m.up, chat)
    IN IF FromSession(m, p, chat) THEN m.wait[user_id].scripts_to_run
       ELSE FindMainFiles(m.up, user_id, p)

\* run_project, lines 293-305: the record a start from the onboarding session
\* appends to the caller's list, which it creates when there is none
AppendRecord(up, user_id, rec) ==
    LET up0 == IF Has(up, user_id) THEN up ELSE Put(up, user_id, <<>>)
    IN Put(up0, user_id, Append(Get(up0, user_id), rec))

\* a registration that terminates the processes of the RunState it replaces
RegisterTerminatesOld(m, p, chat, user_id, main_files, L, duration_days, auto_restart, env, t) ==
    IF L.exc \/ L.processes = <<>>
    THEN Notify([m EXCEPT !.procs = L.procs], chat, "False", env)
    ELSE Notify([m EXCEPT
                   !.procs = IF Has(m.run, p)
                             THEN Terminate(L.procs, HandlesOf(Get(m.run, p)), env)
                             ELSE L.procs,
                   !.run = Put(m.run, p,
                               RunState(L.processes, chat, EndTime(duration_days, t),
                                        user_id, main_files, auto_restart)),
                   !.pau = IF p \in DOMAIN m.pau THEN FDel(m.pau, p) ELSE m.pau],
                chat, "True", env)

\* run_project, lines 358-383, with L the outcome of the launch loop: its
\* exception, or no process at all, ends the start with a notice; otherwise
\* the RunState is registered and the paused entry deleted
run_project_register(m, p, chat, user_id, main_files, L, duration_days, auto_restart, env, t) ==
    IF L.exc \/ L.processes = <<>>
    THEN Notify([m EXCEPT !.procs = L.procs], chat, "False", env)
    ELSE Notify([m EXCEPT
                   !.procs = L.procs,
                   !.run = Put(m.run, p,
                               RunState(L.processes, chat, EndTime(duration_days, t),
                                        user_id, main_files, auto_restart)),
                   !.pau = IF p \in DOMAIN m.pau THEN FDel(m.pau, p) ELSE m.pau],
                chat, "True", env)

\* run_project, lines 307-343, with main_files resolved: no main files, a
\* missing file and a failed installation end the start with a notice
run_project_launch(m, p, chat, user_id, main_files, duration_days, auto_restart, env, dsk, t) ==
    IF main_files = <<>> THEN Notify(m, chat, "False", env)
    ELSE IF \E f \in Range(main_files) : f \notin dsk
         THEN Notify(m, chat, "False", env)
    ELSE IF p \in env.instfail THEN Notify(m, chat, "False", env)
    ELSE run_project_register(m, p, chat, user_id, main_files,
                              Launch(main_files, 1, m.procs, <<>>, chat, env, dsk),
                              duration_days, auto_restart, env, t)

\* run_project, lines 277-305, with the caller's user id, whether the main
\* files come from the session, and the main files
run_project_resolve(m, p, chat, user_id, fromSession, main_files, duration_days, auto_restart, env, dsk, t) ==
    run_project_launch(
        [m EXCEPT !.up = IF fromSession /\ main_files # <<>>
                         THEN AppendRecord(m.up, user_id,
                                           ProjectRecord(p, chat, main_files))
                         ELSE m.up],
        p, chat, user_id, main_files, duration_days, auto_restart, env, dsk, t)

\* ProjectManager.run_project, one attempt
run_project_once(m, p, chat, duration_days, auto_restart, env, dsk, t) ==
    run_project_resolve(m, p, chat, get_user_id_by_chat_id(m.up, chat),
                        FromSession(m, p, chat), ResolveMainFiles(m, p, chat),
                        duration_days, auto_restart, env, dsk, t)

\* func(*args, **kwargs) of error_handler's wrapper: the decorated method, with
\* the arguments of the call
Invoke(call, m) ==
    IF call.func = "stop_project"
    THEN stop_project_once(m, call.p, call.chat, call.pause, call.env)
    ELSE run_project_once(m, call.p, call.chat, call.duration_days, call.auto_restart,
                          call.env, call.dsk, call.t)

\* error_handler: the wrapped call is made until it does not raise, at most
\* MaxRetries times; the last exception is re-raised. r is what the attempt
\* numbered retries + 1 has left.
RECURSIVE error_handler(_, _, _)
Retry(call, r, retries) ==
    IF r.ret # "raise" \/ retries + 1 >= MaxRetries THEN r
    ELSE error_handler(call, r, retries + 1)
error_handler(call, m, retries) == Retry(call, Invoke(call, m), retries)

\* ProjectManager.stop_project
stop_project(m, p, chat, pause, env) ==
    error_handler([func |-> "stop_project", p |-> p, chat |-> chat, pause |-> pause,
                   env |-> env], m, 0)

\* ProjectManager.run_project
run_project(m, p, chat, duration_days, auto_restart, env, dsk, t) ==
    error_handler([func |-> "run_project", p |-> p, chat |-> chat,
                   duration_days |-> duration_days, auto_restart |-> auto_restart,
                   env |-> env, dsk |-> dsk, t |-> t], m, 0)


\* _global_restart_projects, lines 214-232: the loop over the snapshot. An
\* exception that leaves a project's try block is followed by a notice to its
\* chat; when that notice fails too the outer handler ends the pass ("raise").
RECURSIVE SweepLoop(_, _, _, _, _, _)
SweepLoop(snap, i, m, env, dsk, t) ==
    IF i > Len(snap) THEN [m EXCEPT !.ret = "True"]
    ELSE LET project_dir == snap[i].k
             process_info == snap[i].v
             chat_id == process_info.chat_id
         IN IF ~process_info.auto_restart THEN SweepLoop(snap, i + 1, m, env, dsk, t)
            ELSE LET s1 == stop_project(m, project_dir, chat_id, FALSE, env)
                     duration_days == RemainingDays(process_info.end_time, t)
                     s2 == run_project(s1, project_dir, chat_id, duration_days,
                                       process_info.auto_restart, env, dsk, t)
                     failed == IF s1.ret = "raise" THEN s1 ELSE s2
                 IN IF s1.ret = "raise" \/ s2.ret = "raise" \/ chat_id \in env.down
                    THEN IF chat_id \in env.down THEN [failed EXCEPT !.ret = "raise"]
                         ELSE SweepLoop(snap, i + 1, failed, env, dsk, t)
                    ELSE SweepLoop(snap, i + 1, s2, env, dsk, t)

\* ProjectManager.cleanup, lines 475-476: an exception out of stop_project
\* leaves the loop
RECURSIVE CleanupLoop(_, _, _, _)
CleanupLoop(keys, i, m, env) ==
    IF i > Len(keys) THEN [m EXCEPT !.ret = "True"]
    ELSE LET s1 == stop_project(m, keys[i], Get(m.run, keys[i]).chat_id, FALSE, env)
         IN IF s1.ret = "raise" THEN s1 ELSE CleanupLoop(keys, i + 1, s1, env)

\* ------------------------------------------------- the operations as steps
FilesOf(p) == {p} \X ScriptNames
OldHandles(m, p) ==
    (IF Has(m.run, p) THEN HandlesOf(Get(m.run, p)) ELSE {})
      \cup (IF p \in DOMAIN m.pau THEN HandlesOf(m.pau[p]) ELSE {})

Commit(m, lst) ==
    LET c == Normalise(m)
    IN /\ running_processes' = c.run
       /\ paused_processes' = c.pau
       /\ user_projects' = c.up
       /\ waiting_for_main_file' = c.wait
       /\ procs' = c.procs
       /\ last' = lst

\* handle_callbacks, run_ (line 944); `last` keeps whether the project was
\* running
RunEnvs(m, p, chat) ==
    SingleFaultEnvs({}, {}, Range(ResolveMainFiles(m, p, chat)), {p})

RunCb(p, chat) ==
    \E env \in RunEnvs(CurM, p, chat) :
        LET r == run_project(CurM, p, chat, <<>>, TRUE, env, disk, now)
        IN /\ Commit(r, Did("run", p, IF Has(running_processes, p) THEN 1 ELSE 0, r.ret))
           /\ UNCHANGED <<inflight, allowed_users, script_hashes, keep_running, disk, now, sweep_pc>>

\* handle_callbacks, stop_
StopCb(p, chat) ==
    \E env \in SingleFaultEnvs({}, OldHandles(CurM, p), {}, {}) :
        LET r == stop_project(CurM, p, chat, FALSE, env)
        IN /\ Commit(r, Did("stop", p, 0, r.ret))
           /\ UNCHANGED <<inflight, allowed_users, script_hashes, keep_running, disk, now, sweep_pc>>

\* handle_callbacks, pause_ (line 988)
PauseEnvs(m, p) == SingleFaultEnvs({}, OldHandles(m, p), {}, {})

PauseCb(p, chat) ==
    \E env \in PauseEnvs(CurM, p) :
        LET r == stop_project(CurM, p, chat, TRUE, env)
        IN /\ Commit(r, Did("pause", p, 0, r.ret))
           /\ UNCHANGED <<inflight, allowed_users, script_hashes, keep_running, disk, now, sweep_pc>>

\* handle_callbacks, resume_ (lines 1014-1020), for p in paused_processes
ResumeEnvs(m, p, chat) ==
    SingleFaultEnvs({m.pau[p].chat_id} \ {chat}, {},
                    Range(ResolveMainFiles(m, p, m.pau[p].chat_id)), {p})
\* a resume that puts the paused RunState back as it is
ResumeReusesProcesses(m, p, env, dsk, t) ==
    [m EXCEPT !.run = Put(m.run, p, m.pau[p]), !.pau = FDel(m.pau, p), !.ret = "True"]

\* a resume that starts the project with auto_restart = False
ResumeWithoutAutoRestart(m, p, env, dsk, t) ==
    LET process_info == m.pau[p]
    IN run_project(m, p, process_info.chat_id,
                   RemainingDays(process_info.end_time, t), FALSE, env, dsk, t)

resume_(m, p, env, dsk, t) ==
    LET process_info == m.pau[p]
    IN run_project(m, p, process_info.chat_id,
                   RemainingDays(process_info.end_time, t), TRUE, env, dsk, t)

ResumeCb(p, chat) ==
    IF p \in DOMAIN paused_processes
    THEN \E env \in ResumeEnvs(CurM, p, chat) :
              LET r == resume_(CurM, p, env, disk, now)
              IN /\ Commit(r, Did("resume", p, 0, r.ret))
                 /\ UNCHANGED <<inflight, allowed_users, script_hashes, keep_running, disk, now, sweep_pc>>
    ELSE /\ Commit(CurM, Did("resume", p, 0, "none"))
         /\ UNCHANGED <<inflight, allowed_users, script_hashes, keep_running, disk, now, sweep_pc>>

\* handle_callbacks, restart_ (lines 1052-1055)
RestartEnvs(m, p, chat) ==
    SingleFaultEnvs({}, OldHandles(m, p), Range(ResolveMainFiles(m, p, chat)), {p})
\* a restart that does not stop the project first
RestartWithoutStop(m, p, chat, env, dsk, t) ==
    run_project(m, p, chat, <<>>, TRUE, env, dsk, t)

restart_(m, p, chat, env, dsk, t) ==
    LET s1 == IF Has(m.run, p) THEN stop_project(m, p, chat, FALSE, env) ELSE m
    IN run_project(s1, p, chat, <<>>, TRUE, env, dsk, t)

RestartCb(p, chat) ==
    \E env \in RestartEnvs(CurM, p, chat) :
        LET r == restart_(CurM, p, chat, env, disk, now)
        IN /\ Commit(r, Did("restart", p, IF Has(running_processes, p) THEN 1 ELSE 0,
                         r.ret))
           /\ UNCHANGED <<inflight, allowed_users, script_hashes, keep_running, disk, now, sweep_pc>>

\* handle_callbacks, duration_set_
DurationSetCb(p, chat, days) ==
    LET run1 == IF Has(running_processes, p)
                THEN Put(running_processes, p,
                         [Get(running_processes, p) EXCEPT
                            !.end_time = IF days > 0 THEN <<now + days * TicksPerDay>>
                                         ELSE <<>>])
                ELSE running_processes
    IN /\ Commit([CurM EXCEPT !.run = run1],
                 Did("duration_set", p, days,
                     IF Has(running_processes, p) THEN "True" ELSE "False"))
       /\ UNCHANGED <<inflight, allowed_users, script_hashes, keep_running, disk, now, sweep_pc>>

\* handle_callbacks, delete_
DeleteCb(p, chat) ==
    \E env \in SingleFaultEnvs({chat}, OldHandles(CurM, p), {}, {}) :
        LET user_id == get_user_id_by_chat_id(user_projects, chat)
            up1 == IF user_id # NoneId /\ Has(user_projects, user_id)
                   THEN Put(user_projects, user_id,
                            SelectSeq(Get(user_projects, user_id),
                                      LAMBDA q : q.project_dir # p))
                   ELSE user_projects
            m1 == [CurM EXCEPT !.up = up1]
            s1 == IF Has(m1.run, p) THEN stop_project(m1, p, chat, FALSE, env) ELSE m1
            s2 == [s1 EXCEPT !.pau = IF p \in DOMAIN s1.pau THEN FDel(s1.pau, p)
                                     ELSE s1.pau]
        IN IF s1.ret = "raise"
           THEN /\ Commit(s1, Did("delete", p, 0, "raise"))
                /\ UNCHANGED <<inflight, allowed_users, script_hashes, keep_running, disk, now, sweep_pc>>
           ELSE /\ Commit(s2, Did("delete", p, 0, "True"))
                /\ disk' = disk \ FilesOf(p)
                /\ UNCHANGED <<inflight, allowed_users, script_hashes, keep_running, now, sweep_pc>>

\* ------------------------------------------------------------- onboarding
\* the onboarding session handle_document opens
Session(p, chat) ==
    [project_dir |-> p, chat_id |-> chat, scripts_to_run |-> <<>>, num_scripts |-> 0]

\* ProjectManager.get_python_scripts
get_python_scripts(dsk, p) == {f \in dsk : f[1] = p}

\* handle_document: a ZIP archive `name` holding the scripts `content`,
\* sent by user u in chat `chat`
HandleDocument(u, chat, name, content) ==
    LET p == <<u, name>>
    IN IF ~is_allowed(allowed_users, u)
       THEN /\ Commit(CurM, Did("document", p, 0, "denied"))
            /\ UNCHANGED <<inflight, allowed_users, script_hashes, keep_running, disk, now, sweep_pc>>
       ELSE /\ disk' = (disk \ FilesOf(p)) \cup ({p} \X content)
            /\ Commit([CurM EXCEPT !.wait = FPut(waiting_for_main_file, u, Session(p, chat))],
                      Did("document", p, 0, "True"))
            /\ UNCHANGED <<inflight, allowed_users, script_hashes, keep_running, now, sweep_pc>>

\* handle_script_number: the button scriptnum_<num>_<p> pressed by user u
HandleScriptNumber(u, num, p) ==
    IF u \notin DOMAIN waiting_for_main_file
    THEN /\ Commit(CurM, Did("scriptnum", p, num, "expired"))
         /\ UNCHANGED <<inflight, allowed_users, script_hashes, keep_running, disk, now, sweep_pc>>
    ELSE LET wait1 == [waiting_for_main_file EXCEPT ![u].num_scripts = num]
             python_scripts == get_python_scripts(disk, p)
         IN /\ Commit([CurM EXCEPT !.wait = wait1],
                      Did("scriptnum", p, num,
                          IF python_scripts = {} THEN "False" ELSE "True"))
            /\ script_hashes' = IF python_scripts # {} /\ num = 1
                                THEN script_hashes \cup python_scripts
                                ELSE script_hashes
            /\ UNCHANGED <<inflight, allowed_users, keep_running, disk, now, sweep_pc>>

\* a handle_script_selection that consumes the token before it looks for the
\* session
HandleScriptSelectionPopsFirst(u, f) ==
    /\ script_hashes' = script_hashes \ {f}
    /\ IF u \notin DOMAIN waiting_for_main_file
       THEN Commit(CurM, Did("scriptselect", f[1], 0, "expired"))
       ELSE IF f \notin script_hashes
       THEN Commit(CurM, Did("scriptselect", f[1], 0, "False"))
       ELSE Commit([CurM EXCEPT !.wait = [waiting_for_main_file EXCEPT
                                            ![u].scripts_to_run = <<f>>]],
                   Did("scriptselect", f[1], 0, "True"))
    /\ UNCHANGED <<inflight, allowed_users, keep_running, disk, now, sweep_pc>>

\* handle_script_selection: the button scriptselect_<hash of f> pressed by u
HandleScriptSelection(u, f) ==
    IF u \notin DOMAIN waiting_for_main_file
    THEN /\ Commit(CurM, Did("scriptselect", f[1], 0, "expired"))
         /\ UNCHANGED <<inflight, allowed_users, script_hashes, keep_running, disk, now, sweep_pc>>
    ELSE IF f \notin script_hashes
    THEN /\ Commit(CurM, Did("scriptselect", f[1], 0, "False"))
         /\ UNCHANGED <<inflight, allowed_users, script_hashes, keep_running, disk, now, sweep_pc>>
    ELSE /\ script_hashes' = script_hashes \ {f}
         /\ Commit([CurM EXCEPT !.wait = [waiting_for_main_file EXCEPT
                                             ![u].scripts_to_run = <<f>>]],
                   Did("scriptselect", f[1], 0, "True"))
         /\ UNCHANGED <<inflight, allowed_users, keep_running, disk, now, sweep_pc>>

\* Absolute paths of files outside PROJECTS_DIR; such a file is <<NoDir, path>>
\* in `disk`.
AbsNames == {"/etc/hosts"}
\* os.path.join(project_dir, script_name): an absolute second component
\* discards the first
os_path_join(project_dir, script_name) ==
    IF script_name \in AbsNames THEN <<NoDir, script_name>>
    ELSE <<project_dir, script_name>>

\* the texts a user sends while the two script names are awaited
Texts == {<<"/cancel">>, <<"main">>, <<"main", "worker">>}

\* handle_two_scripts_names: the message `text` of user u; the handler is
\* registered for users whose session has num_scripts = 2
HandleTwoScriptsNames(u, text) ==
    /\ u \in DOMAIN waiting_for_main_file
    /\ waiting_for_main_file[u].num_scripts = 2
    /\ LET user_data == waiting_for_main_file[u]
           project_dir == user_data.project_dir
           paths == [i \in 1 .. Len(text) |-> os_path_join(project_dir, text[i])]
       IN IF text = <<"/cancel">>
          THEN /\ Commit([CurM EXCEPT !.wait = FDel(waiting_for_main_file, u)],
                         Did("two_scripts", project_dir, 0, "cancel"))
               /\ disk' = disk \ FilesOf(project_dir)
               /\ UNCHANGED <<inflight, allowed_users, script_hashes, keep_running, now, sweep_pc>>
          ELSE IF Len(text) # 2 \/ \E i \in 1 .. Len(text) : paths[i] \notin disk
          THEN /\ Commit(CurM, Did("two_scripts", project_dir, 0, "False"))
               /\ UNCHANGED <<inflight, allowed_users, script_hashes, keep_running, disk, now, sweep_pc>>
          ELSE /\ Commit([CurM EXCEPT !.wait = [waiting_for_main_file EXCEPT
                                                   ![u].scripts_to_run = paths]],
                         Did("two_scripts", project_dir, 0, "True"))
               /\ UNCHANGED <<inflight, allowed_users, script_hashes, keep_running, disk, now, sweep_pc>>

\* handle_initial_duration: the button duration_<days>_<p> pressed by user u
\* in chat `chat`
HandleInitialDuration(u, chat, days, p) ==
    IF u \notin DOMAIN waiting_for_main_file
    THEN /\ Commit(CurM, Did("initial_duration", p, days, "expired"))
         /\ UNCHANGED <<inflight, allowed_users, script_hashes, keep_running, disk, now, sweep_pc>>
    ELSE LET main_files == waiting_for_main_file[u].scripts_to_run
             up0 == IF Has(user_projects, u) THEN user_projects
                    ELSE Put(user_projects, u, <<>>)
             up1 == Put(up0, u, Append(Get(up0, u), ProjectRecord(p, chat, main_files)))
         IN IF main_files = <<>>
            THEN /\ Commit(CurM, Did("initial_duration", p, days, "False"))
                 /\ UNCHANGED <<inflight, allowed_users, script_hashes, keep_running, disk, now, sweep_pc>>
            ELSE /\ Commit([CurM EXCEPT !.up = up1,
                                        !.wait = FDel(waiting_for_main_file, u)],
                           Did("initial_duration", p, days, "True"))
                 /\ UNCHANGED <<inflight, allowed_users, script_hashes, keep_running, disk, now, sweep_pc>>

\* ----------------------------------------------------------- admin commands
\* add_user_command: "/adduser <arg>" from user `from`; arg is <<>> when the
\* text holds no number
AddUserCmd(from, arg) ==
    /\ IF from \notin ADMIN_IDS
       THEN /\ allowed_users' = allowed_users
            /\ last' = Did("adduser", NoDir, from, "denied")
       ELSE IF arg = <<>>
       THEN /\ allowed_users' = allowed_users
            /\ last' = Did("adduser", NoDir, 0, "usage")
       ELSE /\ allowed_users' = add_user(allowed_users, arg[1])
            /\ last' = Did("adduser", NoDir, arg[1], "True")
    /\ UNCHANGED <<inflight, running_processes, paused_processes, user_projects,
                   waiting_for_main_file, script_hashes, keep_running, procs, disk,
                   now, sweep_pc>>

\* remove_user_command: "/removeuser <arg>" from user `from`
RemoveUserCmd(from, arg) ==
    /\ IF from \notin ADMIN_IDS
       THEN /\ allowed_users' = allowed_users
            /\ last' = Did("removeuser", NoDir, from, "denied")
       ELSE IF arg = <<>>
       THEN /\ allowed_users' = allowed_users
            /\ last' = Did("removeuser", NoDir, 0, "usage")
       ELSE LET r == remove_user(allowed_users, arg[1])
            IN /\ allowed_users' = r.allowed
               /\ last' = Did("removeuser", NoDir, arg[1],
                              IF r.ret THEN "True" ELSE "False")
    /\ UNCHANGED <<inflight, running_processes, paused_processes, user_projects,
                   waiting_for_main_file, script_hashes, keep_running, procs, disk,
                   now, sweep_pc>>

RunChats(run) == {run[i].v.chat_id : i \in 1 .. Len(run)}
RunFiles(run) == UNION {Range(run[i].v.main_files) : i \in 1 .. Len(run)}

\* a loop that an exception of the pass takes out of the while
SweepCheckEndsOnError ==
    /\ sweep_pc = "check"
    /\ sweep_pc' = IF keep_running /\ last.ret # "raise" THEN "sleep" ELSE "done"
    /\ UNCHANGED <<inflight, allowed_users, script_hashes, running_processes, paused_processes, user_projects,
                   waiting_for_main_file, keep_running, procs, disk, now, last>>

\* _global_restart_projects, line 205: the test of the while loop
SweepCheck ==
    /\ sweep_pc = "check"
    /\ sweep_pc' = IF keep_running THEN "sleep" ELSE "done"
    /\ UNCHANGED <<inflight, allowed_users, script_hashes, running_processes, paused_processes, user_projects,
                   waiting_for_main_file, keep_running, procs, disk, now, last>>

\* _global_restart_projects, lines 207-237: the thread wakes from its sleep and
\* makes one pass through the snapshot of running_processes
SweepEnvs(m) ==
    SingleFaultEnvs(RunChats(m.run), RunHandles(m.run), RunFiles(m.run), Keys(m.run))
sweep_pass(m, env, dsk, t) == SweepLoop(m.run, 1, m, env, dsk, t)

SweepPass ==
    /\ sweep_pc = "sleep"
    /\ \E env \in SweepEnvs(CurM) :
         LET r == sweep_pass(CurM, env, disk, now)
         IN Commit(r, Did("sweep", NoDir, 0, r.ret))
    /\ sweep_pc' = "check"
    /\ UNCHANGED <<inflight, allowed_users, script_hashes, keep_running, disk, now>>

\* cleanup that stops the first project of running_processes only
CleanupStopsFirstOnly(m, env) ==
    IF m.run = <<>> THEN [m EXCEPT !.ret = "True"]
    ELSE CleanupLoop(<<m.run[1].k>>, 1, m, env)

\* ProjectManager.cleanup, lines 475-476: stop_project for every key of
\* list(self.running_processes.keys())
cleanup(m, env) ==
    CleanupLoop([i \in 1 .. Len(m.run) |-> m.run[i].k], 1, m, env)

\* the outcomes of the calls cleanup makes: of bot.send_message, of terminate()
CleanupEnvs(m) == SingleFaultEnvs(RunChats(m.run), RunHandles(m.run), {}, {})

\* ProjectManager.cleanup; `last` keeps the number of projects it found running
Cleanup ==
    /\ keep_running' = FALSE
    /\ \E env \in CleanupEnvs(CurM) :
         LET r == cleanup(CurM, env)
         IN Commit(r, Did("cleanup", NoDir, Len(running_processes), r.ret))
    /\ UNCHANGED <<inflight, allowed_users, script_hashes, disk, now, sweep_pc>>

\* the clock advances
Tick ==
    /\ now < MaxTime
    /\ now' = now + 1
    /\ UNCHANGED <<inflight, allowed_users, script_hashes, running_processes, paused_processes, user_projects,
                   waiting_for_main_file, keep_running, procs, disk, sweep_pc, last>>

\* ------------------------------------- stop_project, statement by statement
NoFaults == Env({}, {}, {}, {})

\* The next statement of a call c of stop_project on the manager state m:
\*   check  line 421, `if project_dir in self.running_processes`
\*   read   line 422, a KeyError leaves the function and error_handler retries
\*   term   lines 427-436, terminate() to every process of process_info
\*   del    line 449, a KeyError is caught at line 455 ("Failed to stop")
StopStep(c, m) ==
    IF c.at = "check"
    THEN [m |-> m, twice |-> FALSE,
          c |-> IF Has(m.run, c.p) THEN [c EXCEPT !.at = "read"]
                ELSE [c EXCEPT !.at = "done", !.ret = "False"]]
    ELSE IF c.at = "read"
    THEN [m |-> m, twice |-> FALSE,
          c |-> IF Has(m.run, c.p)
                THEN [c EXCEPT !.at = "term", !.info = <<Get(m.run, c.p)>>]
                ELSE IF c.tries + 1 < MaxRetries
                THEN [c EXCEPT !.at = "check", !.tries = c.tries + 1, !.err = TRUE]
                ELSE [c EXCEPT !.at = "done", !.ret = "raise", !.err = TRUE]]
    ELSE IF c.at = "term"
    THEN [m |-> [m EXCEPT !.procs = Terminate(m.procs, HandlesOf(c.info[1]), NoFaults)],
          twice |-> \E h \in HandlesOf(c.info[1]) : m.procs[h] = "dead",
          c |-> [c EXCEPT !.at = "del"]]
    ELSE IF Has(m.run, c.p)
    THEN [m |-> [m EXCEPT !.run = Del(m.run, c.p)], twice |-> FALSE,
          c |-> [c EXCEPT !.at = "done", !.ret = "True", !.info = <<>>]]
    ELSE [m |-> m, twice |-> FALSE,
          c |-> [c EXCEPT !.at = "done", !.ret = "False", !.err = TRUE, !.info = <<>>]]

InStop(c) == c.at \in {"check", "read", "term", "del"}
HeldBy(c) == IF c.info = <<>> THEN <<>> ELSE c.info[1].processes

\* the end of a step of a thread: the Popen objects that neither a registry
\* nor a call in flight refers to are dropped, the others renumbered
CommitCalls(m, calls, lst) ==
    LET held == HeldBy(calls.stop) \o HeldBy(calls.sweep.call)
        refs == Uniq(RunRefs(m.run) \o PausedRefs(m.pau, DirSeq) \o held)
        Renamed(c) == IF c.info = <<>> THEN c
                      ELSE [c EXCEPT !.info = <<RenameInfo(c.info[1], refs)>>]
        c == NormaliseWith(m, held)
    IN /\ running_processes' = c.run
       /\ paused_processes' = c.pau
       /\ procs' = c.procs
       /\ inflight' = [calls EXCEPT !.stop = Renamed(calls.stop),
                                    !.sweep.call = Renamed(calls.sweep.call)]
       /\ last' = lst
       /\ UNCHANGED <<allowed_users, user_projects, waiting_for_main_file,
                      script_hashes, keep_running, disk, now>>

\* handle_callbacks, stop_: the handler thread enters stop_project (line 962)
StopBegin(p, chat) ==
    /\ inflight.stop.at = "idle"
    /\ CommitCalls(CurM, [inflight EXCEPT !.stop = StopCall(p, chat)], last)
    /\ UNCHANGED sweep_pc

\* the handler thread's next statement in stop_project
StopNext ==
    /\ InStop(inflight.stop)
    /\ LET r == StopStep(inflight.stop, CurM)
       IN CommitCalls(r.m, [inflight EXCEPT !.stop = r.c,
                                            !.twice = inflight.twice \/ r.twice], last)
    /\ UNCHANGED sweep_pc

\* stop_project has returned to the handler (lines 964-976)
StopEnd ==
    /\ inflight.stop.at = "done"
    /\ CommitCalls(CurM, [inflight EXCEPT !.stop = NoCall, !.twice = FALSE],
                   Did("stop", inflight.stop.p, 0, inflight.stop.ret))
    /\ UNCHANGED sweep_pc

\* _global_restart_projects, lines 207-214: the thread wakes and takes the
\* snapshot list(self.running_processes.items())
SnapEntry(e) ==
    [k |-> e.k, chat_id |-> e.v.chat_id, end_time |-> e.v.end_time,
     auto_restart |-> e.v.auto_restart]
SweepBegin ==
    /\ sweep_pc = "sleep"
    /\ sweep_pc' = IF running_processes = <<>> THEN "check" ELSE "pass"
    /\ CommitCalls(CurM,
                   [inflight EXCEPT !.sweep =
                       [NoCalls.sweep EXCEPT
                          !.snap = [j \in 1 .. Len(running_processes) |->
                                       SnapEntry(running_processes[j])],
                          !.i = 1]],
                   last)

\* lines 214-225: the next project of the snapshot; the pass ends after the last
SweepItem ==
    /\ sweep_pc = "pass"
    /\ inflight.sweep.call.at = "idle"
    /\ LET sw == inflight.sweep
       IN IF sw.i > Len(sw.snap)
          THEN /\ sweep_pc' = "check"
               /\ CommitCalls(CurM, inflight, Did("sweep", NoDir, 0, "True"))
          ELSE /\ sweep_pc' = sweep_pc
               /\ CommitCalls(CurM,
                     IF ~sw.snap[sw.i].auto_restart
                     THEN [inflight EXCEPT !.sweep.i = sw.i + 1]
                     ELSE [inflight EXCEPT !.sweep.call =
                              StopCall(sw.snap[sw.i].k, sw.snap[sw.i].chat_id)],
                     last)

\* the restart thread's next statement in stop_project
SweepStopNext ==
    /\ sweep_pc = "pass"
    /\ InStop(inflight.sweep.call)
    /\ LET r == StopStep(inflight.sweep.call, CurM)
       IN CommitCalls(r.m, [inflight EXCEPT !.sweep.call = r.c,
                                            !.twice = inflight.twice \/ r.twice], last)
    /\ UNCHANGED sweep_pc

\* lines 226-232: stop_project has returned or raised; run_project follows
\* unless it raised
SweepRun ==
    /\ sweep_pc = "pass"
    /\ inflight.sweep.call.at = "done"
    /\ LET sw == inflight.sweep
           e == sw.snap[sw.i]
           r == IF sw.call.ret = "raise" THEN [CurM EXCEPT !.ret = "raise"]
                ELSE run_project(CurM, e.k, e.chat_id, RemainingDays(e.end_time, now),
                                 e.auto_restart, NoFaults, disk, now)
       IN CommitCalls(r, [inflight EXCEPT
                             !.sweep.call = NoCall,
                             !.sweep.i = sw.i + 1,
                             !.sweep.err = sw.err \/ sw.call.err \/ r.ret = "raise",
                             !.sweep.restarted =
                                 IF r.ret = "True" THEN sw.restarted \cup {e.k}
                                 ELSE sw.restarted],
                      last)
    /\ UNCHANGED sweep_pc

\* ------------------------------------------------------------ initial states
Entry(k, val) == [k |-> k, v |-> val]
File(u, name, script) == <<<<u, name>>, script>>
\* project lists as onboarding leaves them (or as load_user_projects reads them)
ThreeProjects ==
    << Entry(1, << ProjectRecord(<<1, "app">>, 1,
                                 <<File(1, "app", "main"), File(1, "app", "worker")>>),
                   ProjectRecord(<<1, "bot">>, 1, <<File(1, "bot", "main")>>) >>),
       Entry(2, << ProjectRecord(<<2, "app">>, 2, <<File(2, "app", "main")>>) >>) >>
RecordedDirs(up) ==
    UNION {{up[i].v[j].project_dir : j \in 1 .. Len(up[i].v)} : i \in 1 .. Len(up)}

InitWith(up) ==
    /\ allowed_users = ADMIN_IDS \cup {2}
    /\ running_processes = <<>>
    /\ paused_processes = <<>>
    /\ user_projects = up
    /\ waiting_for_main_file = <<>>
    /\ script_hashes = {}
    /\ keep_running = TRUE
    /\ procs = [h \in Handles |-> "free"]
    /\ disk = UNION {FilesOf(p) : p \in RecordedDirs(up)}
    /\ now = 0
    /\ sweep_pc = "check"
    /\ inflight = NoCalls
    /\ last = NoLast

TwoProjects ==
    << Entry(1, << ProjectRecord(<<1, "app">>, 1,
                                 <<File(1, "app", "main"), File(1, "app", "worker")>>) >>),
       Entry(2, << ProjectRecord(<<2, "app">>, 2, <<File(2, "app", "main")>>) >>) >>

Init == InitWith(TwoProjects)

SupDirs == RecordedDirs(TwoProjects)
SupChats == {1, 2}

Next ==
    \/ \E p \in SupDirs, chat \in SupChats : RunCb(p, chat)
    \/ \E p \in SupDirs, chat \in SupChats : StopCb(p, chat)
    \/ \E p \in SupDirs, chat \in SupChats : PauseCb(p, chat)
    \/ \E p \in SupDirs, chat \in SupChats : ResumeCb(p, chat)
    \/ \E p \in SupDirs, chat \in SupChats : RestartCb(p, chat)
    \/ \E p \in SupDirs, chat \in SupChats : DeleteCb(p, chat)
    \/ SweepCheck
    \/ SweepPass
    \/ Cleanup

Spec == Init /\ [][Next]_vars

\* ------------------------ onboarding of a second project by the one owner
OneProject ==
    << Entry(1, << ProjectRecord(<<1, "app">>, 1, <<File(1, "app", "main")>>) >>) >>
OnbUsers == {1}
OnbChats == {1}
OnbNames == {"bot"}
OnbDirs == OnbUsers \X OnbNames
OnbRunDirs == RecordedDirs(OneProject) \cup OnbDirs

InitOnb == InitWith(OneProject)

RECURSIVE NumRecords(_)
NumRecords(up) == IF up = <<>> THEN 0 ELSE Len(Head(up).v) + NumRecords(Tail(up))
\* another Project record can be persisted
Room == NumRecords(user_projects) < NumRecords(OneProject) + MaxNewRecords
\* run_project, lines 295-304: this start persists a record
Persists(p, chat) ==
    FromSession(CurM, p, chat) /\ ResolveMainFiles(CurM, p, chat) # <<>>

NextOnb ==
    \/ \E u \in OnbUsers, chat \in OnbChats, name \in OnbNames,
          content \in Archives : HandleDocument(u, chat, name, content)
    \/ \E u \in OnbUsers, num \in {1, 2}, p \in OnbDirs : HandleScriptNumber(u, num, p)
    \/ \E u \in OnbUsers, f \in OnbDirs \X ScriptNames : HandleScriptSelection(u, f)
    \/ \E u \in OnbUsers, text \in Texts : HandleTwoScriptsNames(u, text)
    \/ \E u \in OnbUsers, chat \in OnbChats, days \in InitialDays, p \in OnbDirs :
          Room /\ HandleInitialDuration(u, chat, days, p)
    \/ \E p \in OnbRunDirs, chat \in OnbChats :
          (Room \/ ~Persists(p, chat)) /\ RunCb(p, chat)

SpecOnb == InitOnb /\ [][NextOnb]_vars

\* ------------------------------------------------- the admin's user commands
UserArgs == {<<>>} \cup {<<u>> : u \in UserIds}

NextUsers ==
    \/ \E from \in UserIds, arg \in UserArgs : AddUserCmd(from, arg)
    \/ \E from \in UserIds, arg \in UserArgs : RemoveUserCmd(from, arg)

SpecUsers == Init /\ [][NextUsers]_vars

\* ------------------------------------------------ starts of three projects
CapDirs == RecordedDirs(ThreeProjects)

InitCap == InitWith(ThreeProjects)

NextCap ==
    \/ \E p \in CapDirs, chat \in SupChats : RunCb(p, chat)
    \/ \E p \in CapDirs, chat \in SupChats : StopCb(p, chat)
    \/ \E p \in CapDirs, chat \in SupChats : RestartCb(p, chat)

SpecCap == InitCap /\ [][NextCap]_vars

\* ------------------------------------------ durations and the passing of time
TimeDirs == RecordedDirs(OneProject)
TimeChats == {1}

NextTime ==
    \/ \E p \in TimeDirs, chat \in TimeChats : RunCb(p, chat)
    \/ \E p \in TimeDirs, chat \in TimeChats : PauseCb(p, chat)
    \/ \E p \in TimeDirs, chat \in TimeChats : ResumeCb(p, chat)
    \/ \E p \in TimeDirs, chat \in TimeChats, days \in DayChoices :
          DurationSetCb(p, chat, days)
    \/ SweepCheck
    \/ SweepPass
    \/ Tick

SpecTime == InitOnb /\ [][NextTime]_vars

\* The restart thread keeps running and time keeps passing. SweepWakes is the
\* step by which the thread leaves time.sleep and makes its pass: a SweepPass
\* step, the only step of NextTime that takes sweep_pc from "sleep" to "check".
SweepWakes == sweep_pc = "sleep" /\ sweep_pc' = "check"
SpecLive ==
    /\ InitOnb
    /\ [][NextTime]_vars
    /\ WF_vars(SweepCheck)
    /\ WF_sweep_pc(SweepWakes)
    /\ WF_vars(Tick)

\* ------------- a stop by a user while the restart thread makes its pass
ConcA == <<1, "app">>
\* no call is in flight
Quiet == inflight.stop.at = "idle" /\ sweep_pc # "pass"

\* The projects are started while no call is in flight; from then on the
\* handler thread (a stop of ConcA) and the restart thread take their steps in
\* any order.
NextConc ==
    \/ \E p \in SupDirs, chat \in SupChats : Quiet /\ RunCb(p, chat)
    \/ \E chat \in {1} : StopBegin(ConcA, chat)
    \/ StopNext
    \/ StopEnd
    \/ SweepCheck
    \/ SweepBegin
    \/ SweepItem
    \/ SweepStopNext
    \/ SweepRun

SpecConc == Init /\ [][NextConc]_vars

\* ------------------------------- the two script names, typed by the user
\* what a user can type: the cancel token, one name, two names of scripts of
\* the archive, a name of no file, the absolute path of a file outside
\* PROJECTS_DIR, three names
NameTexts ==
    {<<"/cancel">>, <<"main">>, <<"main", "worker">>, <<"main", "nofile">>,
     <<"main", "/etc/hosts">>, <<"main", "worker", "main">>}
NameUsers == {1, 2}

\* as InitOnb, on a machine that has the files of AbsNames
InitNames ==
    /\ allowed_users = ADMIN_IDS \cup {2}
    /\ running_processes = <<>>
    /\ paused_processes = <<>>
    /\ user_projects = OneProject
    /\ waiting_for_main_file = <<>>
    /\ script_hashes = {}
    /\ keep_running = TRUE
    /\ procs = [h \in Handles |-> "free"]
    /\ disk = UNION {FilesOf(q) : q \in RecordedDirs(OneProject)}
                 \cup ({NoDir} \X AbsNames)
    /\ now = 0
    /\ sweep_pc = "check"
    /\ inflight = NoCalls
    /\ last = NoLast

NextNames ==
    \/ \E u \in NameUsers, name \in OnbNames, content \in Archives :
          HandleDocument(u, u, name, content)
    \/ \E u \in NameUsers, num \in {1, 2} : HandleScriptNumber(u, num, <<u, "bot">>)
    \/ \E u \in NameUsers, text \in NameTexts : HandleTwoScriptsNames(u, text)
    \/ \E u \in NameUsers, days \in DayChoices :
          Room /\ HandleInitialDuration(u, u, days, <<u, "bot">>)

SpecNames == InitNames /\ [][NextNames]_vars

\* ------------------------------------- a user whom the admin can remove
\* The user of the model's second project, in the private chat with the bot
\* (call.message.chat.id = call.from_user.id).
AccUser == 2
AccDirs == {<<AccUser, "app">>}

\* another Project record can be persisted
AccSpace == NumRecords(user_projects) < NumRecords(TwoProjects)
\* ... or a start of p from chat u persists none
AccRoom(p, u) == AccSpace \/ ~Persists(p, u)

\* every callback and message of handle_callbacks and of the onboarding
\* handlers that user u can send from the private chat
IssuedBy(u) ==
    \/ \E p \in AccDirs : AccRoom(p, u) /\ RunCb(p, u)
    \/ \E p \in AccDirs : StopCb(p, u)
    \/ \E p \in AccDirs : PauseCb(p, u)
    \/ \E p \in AccDirs : AccRoom(p, u) /\ ResumeCb(p, u)
    \/ \E p \in AccDirs : AccRoom(p, u) /\ RestartCb(p, u)
    \/ \E p \in AccDirs : DurationSetCb(p, u, 1)
    \/ \E p \in AccDirs : DeleteCb(p, u)
    \/ \E num \in {1, 2} : HandleScriptNumber(u, num, <<u, "bot">>)
    \/ \E f \in {<<u, "bot">>} \X ScriptNames : HandleScriptSelection(u, f)
    \/ \E text \in {<<"main", "worker">>} : HandleTwoScriptsNames(u, text)
    \/ AccSpace /\ HandleInitialDuration(u, u, 1, <<u, "bot">>)

NextAccess ==
    \/ AddUserCmd(1, <<AccUser>>)
    \/ RemoveUserCmd(1, <<AccUser>>)
    \/ HandleDocument(AccUser, AccUser, "bot", ScriptNames)
    \/ IssuedBy(AccUser)

SpecAccess == Init /\ [][NextAccess]_vars

\* ----------------------- an archive with the name of a persisted project
\* User 1, whose project "app" is persisted, uploads app.zip again and goes
\* through the onboarding; the project is started, stopped and deleted.
DupDir == <<1, "app">>

NextDup ==
    \/ \E content \in Archives : HandleDocument(1, 1, "app", content)
    \/ \E num \in {1, 2} : HandleScriptNumber(1, num, DupDir)
    \/ \E f \in {DupDir} \X ScriptNames : HandleScriptSelection(1, f)
    \/ \E text \in Texts : HandleTwoScriptsNames(1, text)
    \/ \E days \in DayChoices : Room /\ HandleInitialDuration(1, 1, days, DupDir)
    \/ (Room \/ ~Persists(DupDir, 1)) /\ RunCb(DupDir, 1)
    \/ StopCb(DupDir, 1)
    \/ DeleteCb(DupDir, 1)

SpecDup == InitOnb /\ [][NextDup]_vars

\* ------------------------------------------ cancelling the onboarding
\* handle_callbacks, cancel_selection: the Cancel button of the single-script
\* keyboard (line 745, shown when the archive holds a script) pressed by user
\* u; the handler deletes the message that carries the keyboard and touches
\* nothing else
CancelSelectionCb(u) ==
    /\ u \in DOMAIN waiting_for_main_file
    /\ waiting_for_main_file[u].num_scripts = 1
    /\ get_python_scripts(disk, waiting_for_main_file[u].project_dir) # {}
    /\ Commit(CurM, Did("cancel_selection", waiting_for_main_file[u].project_dir, 0, "cancel"))
    /\ UNCHANGED <<inflight, allowed_users, script_hashes, keep_running, disk, now, sweep_pc>>

NextCancel ==
    \/ NextOnb
    \/ \E u \in OnbUsers : CancelSelectionCb(u)

SpecCancel == InitOnb /\ [][NextCancel]_vars

\* ------------------------------------------------ the controller restarts
\* str(n) of a user id, as json.dump writes the keys of a dict
str(n) == <<"0", "1", "2", "3", "4", "5", "6", "7", "8", "9">>[n + 1]

\* save_user_projects: the content of USER_PROJECTS_FILE, a JSON object
\* whose keys are strings
save_user_projects(up) ==
    [i \in 1 .. Len(up) |-> [k |-> str(up[i].k), v |-> up[i].v]]

\* a load_user_projects that leaves out the owners whose list is empty
LoadSkipsEmptyLists(data) ==
    LET kept == SelectSeq(data, LAMBDA e : e.v # <<>>)
    IN [i \in 1 .. Len(kept) |->
           [k |-> CHOOSE n \in 0 .. 9 : str(n) = kept[i].k, v |-> kept[i].v]]

\* load_user_projects: {int(k): v for k, v in data.items()}
load_user_projects(data) ==
    [i \in 1 .. Len(data) |->
        [k |-> CHOOSE n \in 0 .. 9 : str(n) = data[i].k, v |-> data[i].v]]

\* save_allowed_users: the JSON array under 'allowed_users'; a set here, as
\* list(set) fixes no order and the loader makes a set of it again
save_allowed_users(allowed) == [allowed_users |-> allowed]

\* UserManager.__init__ and load_allowed_users
load_allowed_users(data) == ADMIN_IDS \cup data.allowed_users

\* The controller process ends and is started again: both files hold what
\* was saved, and both managers are constructed anew.  `last` keeps the
\* number of projects that were running.
Restart ==
    /\ allowed_users' = load_allowed_users(save_allowed_users(allowed_users))
    /\ Commit(Mgr(<<>>, <<>>, load_user_projects(save_user_projects(user_projects)),
                  <<>>, procs),
              Did("__init__", NoDir, Len(running_processes), "True"))
    /\ script_hashes' = {}
    /\ keep_running' = TRUE
    /\ sweep_pc' = "check"
    /\ inflight' = NoCalls
    /\ UNCHANGED <<disk, now>>

NextRestart ==
    \/ NextAccess
    \/ Restart

SpecRestart == Init /\ [][NextRestart]_vars

\* ------------------------------------------- two owners in one group chat
\* Users 1 and 2 have each uploaded a project in the group chat, so both
\* records carry its chat_id; each presses the buttons of /myprojects there.
SharedChatProjects ==
    << Entry(1, << ProjectRecord(<<1, "app">>, GroupChat, <<File(1, "app", "main")>>) >>),
       Entry(2, << ProjectRecord(<<2, "app">>, GroupChat, <<File(2, "app", "main")>>) >>) >>

NextShared ==
    \/ \E p \in SupDirs : RunCb(p, GroupChat)
    \/ \E p \in SupDirs : StopCb(p, GroupChat)
    \/ \E p \in SupDirs : PauseCb(p, GroupChat)
    \/ \E p \in SupDirs : ResumeCb(p, GroupChat)
    \/ \E p \in SupDirs : DeleteCb(p, GroupChat)

SpecShared == InitWith(SharedChatProjects) /\ [][NextShared]_vars

\* ---- a pause by a user and a shutdown while the restart thread makes its pass
\* stop_project(pause=True) statement by statement: as StopStep, with the
\* statement of line 447 between the terminate() loop and the del of line 449
\*   put    line 447, paused_processes[project_dir] = process_info
PauseStep(c, m) ==
    IF c.at = "term"
    THEN [StopStep(c, m) EXCEPT !.c.at = "put"]
    ELSE IF c.at = "put"
    THEN [m |-> [m EXCEPT !.pau = FPut(m.pau, c.p, c.info[1])], twice |-> FALSE,
          c |-> [c EXCEPT !.at = "del"]]
    ELSE StopStep(c, m)

\* the handler thread's next statement in stop_project(pause=True)
PauseNext ==
    /\ InStop(inflight.stop) \/ inflight.stop.at = "put"
    /\ LET r == PauseStep(inflight.stop, CurM)
       IN CommitCalls(r.m, [inflight EXCEPT !.stop = r.c,
                                            !.twice = inflight.twice \/ r.twice], last)
    /\ UNCHANGED sweep_pc

\* The projects are started while no call is in flight; from then on the
\* handler thread (a pause of ConcA, entered and left as a stop is) and the
\* restart thread take their steps in any order.  The main thread runs cleanup
\* (as one step) while neither thread is inside stop_project, also between
\* two projects of the restart thread's pass.
NextThreads ==
    \/ \E p \in SupDirs, chat \in SupChats : Quiet /\ RunCb(p, chat)
    \/ \E chat \in {1} : StopBegin(ConcA, chat)
    \/ PauseNext
    \/ StopEnd
    \/ SweepCheck
    \/ SweepBegin
    \/ SweepItem
    \/ SweepStopNext
    \/ SweepRun
    \/ inflight.stop.at = "idle" /\ inflight.sweep.call.at = "idle" /\ Cleanup

SpecThreads == Init /\ [][NextThreads]_vars

\* ------------------- child processes that exit, handlers that overlap
\* a reader that takes the project out of running_processes when its child
\* has exited
ReaderDropsExited(h) ==
    /\ procs[h] = "alive"
    /\ h \in RunHandles(running_processes)
    /\ procs' = [procs EXCEPT ![h] = "dead"]
    /\ running_processes' = SelectSeq(running_processes, LAMBDA e : h \notin HandlesOf(e.v))
    /\ \E sent \in BOOLEAN : last' = Did("reader", NoDir, h, IF sent THEN "True" ELSE "False")
    /\ UNCHANGED <<inflight, allowed_users, script_hashes, paused_processes,
                   user_projects, waiting_for_main_file, keep_running, disk, now, sweep_pc>>

\* start_output_reader, the thread `reader` of the child process h: the child
\* exits by itself, readline returns '' and poll() is not None, the thread
\* reports stderr and the exit code to the chat; an exception of these
\* notices is caught at line 411 (`sent` is false)
reader(h) ==
    /\ procs[h] = "alive"
    /\ h \in RunHandles(running_processes)
    /\ procs' = [procs EXCEPT ![h] = "dead"]
    /\ \E sent \in BOOLEAN : last' = Did("reader", NoDir, h, IF sent THEN "True" ELSE "False")
    /\ UNCHANGED <<inflight, allowed_users, script_hashes, running_processes, paused_processes,
                   user_projects, waiting_for_main_file, keep_running, disk, now, sweep_pc>>

\* Two handler threads overlap: run_ is in run_project for p, which is in
\* neither registry, and has launched the processes (lines 277-343) when
\* delete_ for p is handled from its first to its last statement (lines
\* 1098-1127: the record is filtered out, p is in neither registry, the
\* directory is removed); run_project then registers the RunState (364).
DeleteDuringStart(p, chat) ==
    /\ ~Has(running_processes, p)
    /\ p \notin DOMAIN paused_processes
    /\ LET r == run_project(CurM, p, chat, <<>>, TRUE, NoFaults, disk, now)
           user_id == get_user_id_by_chat_id(r.up, chat)
           up1 == IF user_id # NoneId /\ Has(r.up, user_id)
                  THEN Put(r.up, user_id,
                           SelectSeq(Get(r.up, user_id), LAMBDA q : q.project_dir # p))
                  ELSE r.up
       IN /\ r.ret = "True"
          /\ Commit([r EXCEPT !.up = up1], Did("run", p, 0, r.ret))
    /\ disk' = disk \ FilesOf(p)
    /\ UNCHANGED <<inflight, allowed_users, script_hashes, keep_running, now, sweep_pc>>

NextOverlap ==
    \/ \E p \in SupDirs, chat \in SupChats : RunCb(p, chat)
    \/ \E p \in SupDirs, chat \in SupChats : StopCb(p, chat)
    \/ \E p \in SupDirs, chat \in SupChats : PauseCb(p, chat)
    \/ \E p \in SupDirs, chat \in SupChats : DeleteCb(p, chat)
    \/ \E h \in Handles : reader(h)
    \/ \E p \in SupDirs, chat \in SupChats : DeleteDuringStart(p, chat)

SpecOverlap == Init /\ [][NextOverlap]_vars

\* ------------------------------- buttons of an earlier upload pressed late
\* User 1 uploads archives of either name, one after the other, and presses
\* the buttons of any of the uploads, also those of an upload that a later
\* one has replaced in waiting_for_main_file.
NextStale ==
    \/ \E name \in ArchiveNames, content \in Archives : HandleDocument(1, 1, name, content)
    \/ \E num \in {1, 2}, name \in ArchiveNames : HandleScriptNumber(1, num, <<1, name>>)
    \/ \E name \in ArchiveNames, script \in ScriptNames :
          HandleScriptSelection(1, File(1, name, script))
    \/ \E text \in Texts : HandleTwoScriptsNames(1, text)
    \/ \E days \in DayChoices, name \in ArchiveNames :
          Room /\ HandleInitialDuration(1, 1, days, <<1, name>>)

SpecStale == InitOnb /\ [][NextStale]_vars

\* =================================================================== claims
\* C1: after any sequence of starts, stops, pauses, resumes, restarts,
\* deletes, sweeps and a shutdown, no project is both in running_processes and
\* in paused_processes.
C1_RunningAndPausedDisjoint ==
    \A p \in ProjectDirs : ~(Has(running_processes, p) /\ p \in DOMAIN paused_processes)

\* a project has been paused and resumed while another one is paused
C1_Witness ==
    /\ last.op = "resume" /\ last.ret = "True"
    /\ Has(running_processes, last.p)
    /\ DOMAIN paused_processes # {}

\* the restart thread has gone through the whole of a non-empty snapshot
PassDone ==
    /\ sweep_pc = "check"
    /\ inflight.sweep.i > Len(inflight.sweep.snap)
    /\ inflight.sweep.snap # <<>>

\* C2: when the restart thread's pass and a user's stop act on the same running
\* project, terminate() goes to a process of it from one of them only, no
\* exception is raised in either's stop_project, and the pass starts every
\* other project with auto_restart again.
C2_SweepAndStopSerialised ==
    /\ ~inflight.twice
    /\ ~inflight.stop.err /\ ~inflight.sweep.err /\ ~inflight.sweep.call.err
    /\ PassDone =>
          \A j \in 1 .. Len(inflight.sweep.snap) :
             (inflight.sweep.snap[j].k # ConcA /\ inflight.sweep.snap[j].auto_restart)
                => inflight.sweep.snap[j].k \in inflight.sweep.restarted

\* p is running and its end_time lies in the past
Expired(p) ==
    /\ Has(running_processes, p)
    /\ Get(running_processes, p).end_time # <<>>
    /\ now > Get(running_processes, p).end_time[1]
\* the last operation was a user's, not the restart thread's
UserActed == last.op # "sweep"

\* C3: a running project whose end_time has passed is removed from
\* running_processes in the end, by the restart thread alone: unless a user
\* command comes in between.
C3_ExpiredIsRemoved ==
    \A p \in TimeDirs :
        (Expired(p) /\ ~UserActed) ~> (~Has(running_processes, p) \/ UserActed)

\* C4: running_processes never holds more than MAX_SCRIPTS projects, and a
\* start of one more project when it holds MAX_SCRIPTS does not succeed.
C4_AtMostMaxScripts ==
    /\ Len(running_processes) <= MAX_SCRIPTS
    /\ \A p \in CapDirs, chat \in SupChats :
          (Len(running_processes) = MAX_SCRIPTS /\ ~Has(running_processes, p)) =>
             \A env \in RunEnvs(CurM, p, chat) :
                run_project(CurM, p, chat, <<>>, TRUE, env, disk, now).ret # "True"

\* no user's list in user_projects has a record of p
NoRecord(p) ==
    \A i \in 1 .. Len(user_projects) : \A j \in 1 .. Len(user_projects[i].v) :
        user_projects[i].v[j].project_dir # p
\* no onboarding session names a script to run
NoSessionScripts ==
    \A u \in DOMAIN waiting_for_main_file : waiting_for_main_file[u].scripts_to_run = <<>>

RestartFresh(p, chat, env, allDead) ==
    LET old == HandlesOf(Get(running_processes, p))
        r == restart_(CurM, p, chat, env, disk, now)
        new == HandlesOf(Get(r.run, p))
    IN r.ret = "True" =>
         /\ Has(r.run, p)
         /\ new \cap old = {}
         /\ \A h \in new : procs[h] = "free" /\ r.procs[h] = "alive"
         /\ \A h \in old : (allDead \/ h \notin env.fail) => r.procs[h] = "dead"
         /\ old \cap (RunHandles(r.run) \cup PausedHandles(r.pau)) = {}

\* C6: after a stop of P and a successful start of P, running_processes[P]
\* holds only processes the start launched, every process of the RunState
\* before is dead, and neither registry refers to one.
C6_OldHandlesAllDead ==
    \A p \in SupDirs, chat \in SupChats :
        Has(running_processes, p) =>
           \A env \in RestartEnvs(CurM, p, chat) : RestartFresh(p, chat, env, TRUE)

\* C6, with the stop as best effort: after a stop of P and a successful start
\* of P, running_processes[P] holds only processes the start launched, neither
\* registry refers to a process of the RunState before, and each of those has
\* been sent terminate() and, where that raised, kill(), and is dead unless
\* both raised.
C6_OldHandlesStopped ==
    \A p \in SupDirs, chat \in SupChats :
        Has(running_processes, p) =>
           \A env \in RestartEnvs(CurM, p, chat) : RestartFresh(p, chat, env, FALSE)

\* a running project has been stopped and started again
C6_Witness ==
    /\ last.op = "restart" /\ last.n = 1 /\ last.ret = "True"
    /\ Has(running_processes, last.p)

\* C7: a pause of a running project P moves its RunState to paused_processes
\* with end_time (and everything else) as it was; a successful resume takes P
\* out of paused_processes and puts into running_processes a RunState all of
\* whose processes have just been launched.
C7_PauseKeepsResumeRenews ==
    \A p \in TimeDirs, chat \in TimeChats :
        /\ Has(running_processes, p) =>
             \A env \in PauseEnvs(CurM, p) :
                LET r == stop_project(CurM, p, chat, TRUE, env)
                IN /\ r.ret = "True"
                   /\ ~Has(r.run, p)
                   /\ p \in DOMAIN r.pau
                   /\ r.pau[p] = Get(running_processes, p)
        /\ p \in DOMAIN paused_processes =>
             \A env \in ResumeEnvs(CurM, p, chat) :
                LET r == resume_(CurM, p, env, disk, now)
                    new == HandlesOf(Get(r.run, p))
                IN r.ret = "True" =>
                     /\ p \notin DOMAIN r.pau
                     /\ Has(r.run, p)
                     /\ new # {}
                     /\ new \cap HandlesOf(paused_processes[p]) = {}
                     /\ \A h \in new : procs[h] = "free" /\ r.procs[h] = "alive"

\* a project that was paused with an end_time set has been resumed
C7_Witness ==
    /\ last.op = "resume" /\ last.ret = "True"
    /\ Has(running_processes, last.p)
    /\ last.p \notin DOMAIN paused_processes
    /\ Get(running_processes, last.p).end_time # <<>>

\* new has the deadline of old: none, or the same end_time when it lies ahead
SameDeadline(old, new) ==
    /\ old.end_time = <<>> => new.end_time = <<>>
    /\ (old.end_time # <<>> /\ old.end_time[1] > now) => new.end_time = old.end_time

\* C8: when the sweep or a resume replaces a RunState whose end_time E lies
\* ahead, the new RunState has end_time E again; a RunState without end_time
\* is replaced by one without.
C8_DeadlineKept ==
    \A p \in TimeDirs :
        /\ (Has(running_processes, p) /\ Get(running_processes, p).auto_restart) =>
             \A env \in SweepEnvs(CurM) :
                LET r == sweep_pass(CurM, env, disk, now)
                IN (r.ret = "True" /\ Has(r.run, p)) =>
                      SameDeadline(Get(running_processes, p), Get(r.run, p))
        /\ p \in DOMAIN paused_processes =>
             \A chat \in TimeChats : \A env \in ResumeEnvs(CurM, p, chat) :
                LET r == resume_(CurM, p, env, disk, now)
                IN r.ret = "True" => SameDeadline(paused_processes[p], Get(r.run, p))

\* C9: the start that "Run Now" makes right after an onboarding that ended
\* with the duration button for d days gives the RunState end_time = now + d
\* days, and no end_time when d = 0 ("No Duration").
C9_ChosenDurationApplies ==
    [][\A p \in OnbDirs :
          (/\ last.op = "initial_duration" /\ last.ret = "True" /\ last.p = p
           /\ last'.op = "run" /\ last'.ret = "True" /\ last'.p = p)
          => /\ Has(running_processes', p)
             /\ Get(running_processes', p).end_time = EndTime(<<last.n>>, now)]_vars

\* C10: remove_user of an admin returns False and leaves allowed_users as it
\* is, and every admin is in allowed_users at all times.
C10_AdminsStayAllowed ==
    /\ ADMIN_IDS \subseteq allowed_users
    /\ \A a \in ADMIN_IDS :
          remove_user(allowed_users, a) = [allowed |-> allowed_users, ret |-> FALSE]

\* the admin has asked for the removal of an admin, after adding a user
C10_Witness ==
    /\ last.op = "removeuser" /\ last.n \in ADMIN_IDS /\ last.ret = "False"
    /\ allowed_users \ (ADMIN_IDS \cup {2}) # {}

\* C11: while the two script names are awaited, a text other than the cancel
\* token leaves the session as it is unless it is exactly two names of
\* existing files under the session's project directory; such a text, and no
\* other, sets scripts_to_run (to the two paths).
C11_OnlyTwoExistingNamesAdvance ==
    [][\A u \in NameUsers :
          (/\ last'.op = "two_scripts" /\ last'.ret # "cancel"
           /\ u \in DOMAIN waiting_for_main_file
           /\ waiting_for_main_file[u].num_scripts = 2)
          => /\ u \in DOMAIN waiting_for_main_file'
             /\ \/ waiting_for_main_file'[u] = waiting_for_main_file[u]
                \/ LET scripts == waiting_for_main_file'[u].scripts_to_run
                   IN /\ last'.ret = "True"
                      /\ Len(scripts) = 2
                      /\ \A i \in 1 .. 2 :
                            /\ scripts[i] \in disk
                            /\ scripts[i][1] = waiting_for_main_file[u].project_dir
                      /\ waiting_for_main_file'[u] =
                            [waiting_for_main_file[u] EXCEPT !.scripts_to_run = scripts]
             /\ last'.ret = "False" => waiting_for_main_file' = waiting_for_main_file]_vars

\* C12: a callback of handle_callbacks (run, stop, pause, resume, restart,
\* duration_set, delete) or an onboarding input (script number, script
\* selection, script names, duration) from a user who is not in allowed_users
\* leaves running_processes, paused_processes, user_projects and
\* waiting_for_main_file as they are.
C12_NotAllowedChangesNothing ==
    [][(AccUser \notin allowed_users /\ IssuedBy(AccUser))
          => UNCHANGED <<running_processes, paused_processes, user_projects,
                         waiting_for_main_file>>]_vars

\* the fault of env does not concern the running project q: its chat is
\* reachable, its main files can be spawned, its requirements installed
Spared(q, env) ==
    /\ Get(running_processes, q).chat_id \notin env.down
    /\ Range(Get(running_processes, q).main_files) \cap env.spawnfail = {}
    /\ q \notin env.instfail

\* C13: whatever fails for one project in a pass of the restart thread (its
\* stop, its start, the notice to its chat), every other running project
\* with auto_restart is stopped and started in that pass: it is running
\* afterwards, on processes launched in the pass.
C13_SweepIsolatesFailures ==
    \A q \in SupDirs :
        (Has(running_processes, q) /\ Get(running_processes, q).auto_restart) =>
           \A env \in SweepEnvs(CurM) :
              Spared(q, env) =>
                 LET r == sweep_pass(CurM, env, disk, now)
                 IN /\ Has(r.run, q)
                    /\ HandlesOf(Get(r.run, q)) \cap HandlesOf(Get(running_processes, q)) = {}
                    /\ \A h \in HandlesOf(Get(r.run, q)) : r.procs[h] = "alive"

\* C14: when cleanup has returned, keep_running is false and
\* running_processes is empty, and another call of cleanup returns with
\* every registry and every process as the first call left them.
C14_CleanupIdempotent ==
    /\ (last.op = "cleanup" /\ last.ret = "True") =>
          ~keep_running /\ running_processes = <<>>
    /\ \A env \in CleanupEnvs(CurM) :
          LET r == cleanup(CurM, env)
          IN r.ret = "True" =>
               /\ r.run = <<>>
               /\ \A env2 \in CleanupEnvs(CurM) : cleanup(r, env2) = r

\* cleanup has returned after it stopped two running projects
C14_Witness ==
    /\ last.op = "cleanup" /\ last.n = 2 /\ last.ret = "True"
    /\ running_processes = <<>>
    /\ ~keep_running

LaunchedBy(r) == {h \in Handles : procs[h] = "free" /\ r.procs[h] = "alive"}

\* C16: when Popen fails for one main file of a project that is not running,
\* the other main files are still launched: the start returns False only if
\* it launched no process, and otherwise running_processes[P] holds every
\* process it launched.
C16_SpawnFailureSparesSiblings ==
    \A p \in SupDirs, chat \in SupChats :
        ~Has(running_processes, p) =>
           \A env \in RunEnvs(CurM, p, chat) :
              LET r == run_project(CurM, p, chat, <<>>, TRUE, env, disk, now)
                  main_files == ResolveMainFiles(CurM, p, chat)
              IN /\ r.ret = "False" => LaunchedBy(r) = {}
                 /\ LaunchedBy(r) # {} =>
                       Has(r.run, p) /\ LaunchedBy(r) \subseteq HandlesOf(Get(r.run, p))
                 /\ (/\ env.instfail = {}
                     /\ Range(main_files) \subseteq disk
                     /\ Range(main_files) \ env.spawnfail # {}) => r.ret = "True"

\* up has a record of project p with these main files in the list of user u
HasRecord(up, u, p, main_files) ==
    /\ Has(up, u)
    /\ \E j \in 1 .. Len(Get(up, u)) :
          /\ Get(up, u)[j].project_dir = p
          /\ Get(up, u)[j].main_files = main_files

\* the user of an onboarding session with scripts chosen starts, from the
\* private chat, the session's project, of which there is no record: the
\* start runs the session's scripts and persists a record of the project
StartsFromSession(u) ==
    (/\ u \in DOMAIN waiting_for_main_file
     /\ waiting_for_main_file[u].scripts_to_run # <<>>
     /\ NoRecord(waiting_for_main_file[u].project_dir)) =>
        LET project_dir == waiting_for_main_file[u].project_dir
            scripts == waiting_for_main_file[u].scripts_to_run
            r == run_project(CurM, project_dir, u, <<>>, TRUE, NoFaults, disk, now)
        IN /\ HasRecord(r.up, u, project_dir, scripts)
           /\ r.ret = "True"
           /\ Has(r.run, project_dir)
           /\ Get(r.run, project_dir).main_files = scripts

\* C17: a start of a project without a persisted record, by a user whose
\* onboarding session has a non-empty scripts_to_run, takes the main files
\* from the session and persists a record of the project: for a user who has
\* persisted projects and for a user who has none yet.
C17_StartFromSessionPersists ==
    \A u \in NameUsers : StartsFromSession(u)

\* C18: the stop_ callback for a paused project destroys its RunState: after
\* it the project is neither in paused_processes nor in running_processes.
C18_StopOfPausedDestroys ==
    [][\A p \in SupDirs :
          (/\ p \in DOMAIN paused_processes
           /\ last'.op = "stop" /\ last'.p = p)
          => /\ p \notin DOMAIN paused_processes'
             /\ ~Has(running_processes', p)]_vars

\* C19: no user's list in user_projects holds two records with the same
\* project_dir, whatever uploads (also of an archive with the name of an
\* earlier one), onboardings, starts and deletes have taken place.
C19_ProjectDirIsUnique ==
    \A i \in 1 .. Len(user_projects) :
        \A j, k \in 1 .. Len(user_projects[i].v) :
            user_projects[i].v[j].project_dir = user_projects[i].v[k].project_dir => j = k

\* C20: an explicit cancellation of the onboarding, by the Cancel button of
\* the single-script keyboard or by the /cancel text of the two-script
\* prompt, removes the user's session from waiting_for_main_file and deletes
\* the extracted project directory.
C20_CancelDestroysSession ==
    [][\A u \in OnbUsers :
          (/\ u \in DOMAIN waiting_for_main_file
           /\ last'.ret = "cancel"
           /\ last'.p = waiting_for_main_file[u].project_dir)
          => /\ u \notin DOMAIN waiting_for_main_file'
             /\ disk' \cap FilesOf(last'.p) = {}]_vars

C22_RetryConfinesFailure ==
    \A p \in Keys(running_processes) :
        \A env \in CleanupEnvs(CurM) :
            LET call == [func |-> "stop_project", p |-> p, pause |-> FALSE, env |-> env,
                         chat |-> Get(running_processes, p).chat_id]
                a1 == Invoke(call, CurM)
                a2 == Invoke(call, a1)
                a3 == Invoke(call, a2)
                r == error_handler(call, CurM, 0)
            IN /\ r = IF a1.ret # "raise" THEN a1
                      ELSE IF a2.ret # "raise" THEN a2 ELSE a3
               /\ r.ret # "raise"

\* C23: a restart of the controller (save, then load by the new process)
\* gives back the same user_projects, owner ids being integers again, and
\* the allowed set that was saved together with the admins;
\* running_processes and paused_processes are empty after it.
C23_RestartRoundTrips ==
    [][Restart =>
          /\ user_projects' = user_projects
          /\ \A i \in 1 .. Len(user_projects') : user_projects'[i].k \in UserIds
          /\ allowed_users' = allowed_users \cup ADMIN_IDS
          /\ running_processes' = <<>>
          /\ paused_processes' = <<>>]_vars

\* a restart that found a project running and user 2 removed from the
\* allowed set
C23_Witness ==
    /\ last.op = "__init__" /\ last.n >= 1
    /\ Len(user_projects) = 2
    /\ AccUser \notin allowed_users

\* C24: after the Delete button of project P was handled, no owner's list in
\* user_projects holds a record of P and P is a key of neither
\* running_processes nor paused_processes, also when the records of two
\* owners carry the same chat_id.
C24_DeletedIsGone ==
    last.op = "delete" =>
        /\ last.p \notin RecordedDirs(user_projects)
        /\ ~Has(running_processes, last.p)
        /\ last.p \notin DOMAIN paused_processes

\* C25: when the script-count button is pressed for an extracted tree that
\* holds no script, the user's onboarding session is ended: the user is no
\* longer a key of waiting_for_main_file.
C25_NoScriptEndsSession ==
    [][\A u \in OnbUsers, num \in {1, 2}, p \in OnbDirs :
          (/\ u \in DOMAIN waiting_for_main_file
           /\ get_python_scripts(disk, p) = {}
           /\ HandleScriptNumber(u, num, p))
          => u \notin DOMAIN waiting_for_main_file']_vars

\* C26: with the handler thread and the restart thread taking the reads,
\* inserts and deletes of the registries one statement at a time, in any
\* order, no state is reached in which a project is a key of
\* running_processes and of paused_processes at once.
C26_NeverInBothRegistries ==
    Keys(running_processes) \cap DOMAIN paused_processes = {}

\* C27: once cleanup has set keep_running to false and running_processes is
\* empty, no step of the restart thread puts a project into
\* running_processes again, also when cleanup ran while the thread was in the
\* middle of a pass.
C27_NoLaunchAfterShutdown ==
    [][(/\ ~keep_running
        /\ running_processes = <<>>
        /\ (SweepCheck \/ SweepBegin \/ SweepItem \/ SweepStopNext \/ SweepRun))
       => running_processes' = <<>>]_vars

\* C28: while keep_running is true the restart thread never leaves its loop:
\* whatever a pass raises, the thread is back in its sleep afterwards, and
\* under fairness it sleeps and makes a pass again and again.
C28_SweepLoopNeverEnds ==
    /\ [](keep_running => sweep_pc # "done")
    /\ (last.op = "sweep" /\ last.ret = "raise" /\ sweep_pc = "check") ~> (sweep_pc = "sleep")
    /\ []<>(sweep_pc = "sleep")
    /\ []<>(sweep_pc = "check" /\ last.op = "sweep")

\* the thread sleeps again after a pass that raised
C28_Witness ==
    /\ keep_running
    /\ last.op = "sweep" /\ last.ret = "raise"
    /\ sweep_pc = "sleep"

\* a start of p with these main files fails validation: a main file is not
\* on disk, or the installation of the requirements fails
FailsValidation(p, main_files, env) ==
    /\ main_files # <<>>
    /\ (\E f \in Range(main_files) : f \notin disk) \/ p \in env.instfail

\* C29: a start that fails validation, a resolved main file missing on disk
\* or the installation of the dependencies failing, returns False and leaves
\* running_processes, paused_processes and user_projects as they were,
\* whether the main files came from user_projects or from the onboarding
\* session.
C29_FailedValidationChangesNothing ==
    \A p \in OnbRunDirs, chat \in OnbChats :
        \A env \in RunEnvs(CurM, p, chat) :
            FailsValidation(p, ResolveMainFiles(CurM, p, chat), env) =>
                LET r == run_project(CurM, p, chat, <<>>, TRUE, env, disk, now)
                IN /\ r.ret = "False"
                   /\ r.run = running_processes
                   /\ r.pau = paused_processes
                   /\ r.up = user_projects

\* the result r of a start of p, which was running, holds a new RunState for
\* p; the processes of the RunState before are alive and neither registry
\* refers to one of them
ReplacedAndOrphaned(p, r) ==
    LET old == HandlesOf(Get(running_processes, p))
    IN /\ Has(r.run, p)
       /\ HandlesOf(Get(r.run, p)) \cap old = {}
       /\ \A h \in HandlesOf(Get(r.run, p)) : procs[h] = "free" /\ r.procs[h] = "alive"
       /\ \A h \in old : r.procs[h] = "alive"
       /\ old \cap (RunHandles(r.run) \cup PausedHandles(r.pau)) = {}

\* C30: a start of P while P is in running_processes puts a new RunState in
\* its place and does not terminate the processes of the one before: they
\* are alive after the call and neither registry refers to them.
C30_StartOverRunningOrphans ==
    \A p \in SupDirs, chat \in SupChats :
        Has(running_processes, p) =>
           \A env \in RunEnvs(CurM, p, chat) :
              ReplacedAndOrphaned(p, run_project(CurM, p, chat, <<>>, TRUE, env, disk, now))

\* C30, for the starts that succeed: a start of P while P is in
\* running_processes that returns True puts a new RunState in its place and
\* leaves the processes of the one before alive and out of both registries; a
\* start that returns False leaves running_processes[P] as it was.
C30_SuccessfulStartOrphans ==
    \A p \in SupDirs, chat \in SupChats :
        Has(running_processes, p) =>
           \A env \in RunEnvs(CurM, p, chat) :
              LET r == run_project(CurM, p, chat, <<>>, TRUE, env, disk, now)
              IN IF r.ret = "True" THEN ReplacedAndOrphaned(p, r)
                 ELSE /\ r.ret = "False"
                      /\ r.run = running_processes
                      /\ \A h \in HandlesOf(Get(running_processes, p)) : r.procs[h] = "alive"

\* a running project has been started again
C30_Witness ==
    /\ last.op = "run" /\ last.n = 1 /\ last.ret = "True"
    /\ Has(running_processes, last.p)

\* C32: the restart thread starts a project of its snapshot only if it has
\* itself just taken it out of running_processes: a project that a user has
\* stopped or paused since the snapshot was taken (stop_project did not
\* return True to the thread) is not put into running_processes by the
\* thread, and a paused project stays in paused_processes.
C32_SweepStartsOnlyWhatItStopped ==
    [][\A i \in 1 .. Len(inflight.sweep.snap) :
          (/\ keep_running
           /\ inflight.sweep.i = i
           /\ inflight.sweep.call.ret # "True"
           /\ SweepRun)
          => /\ ~Has(running_processes', inflight.sweep.snap[i].k)
             /\ inflight.sweep.snap[i].k \in DOMAIN paused_processes
                   => inflight.sweep.snap[i].k \in DOMAIN paused_processes']_vars

\* C33: a stop deletes from running_processes only the RunState whose
\* processes it has terminated: when the handler thread's stop_project of P
\* reaches its del while the restart thread stops and starts P, the entry it
\* deletes is never one whose processes are alive.
C33_StopDeletesOnlyWhatItTerminated ==
    [][(/\ inflight.stop.at = "del"
        /\ Has(running_processes, inflight.stop.p)
        /\ StopNext)
       => \A h \in HandlesOf(Get(running_processes, inflight.stop.p)) :
             procs[h] = "dead"]_vars

\* C36: every RunState of running_processes and of paused_processes has
\* auto_restart = True, as no caller of run_project passes False; so the
\* restart thread skips no entry of its snapshot.
C36_AutoRestartAlwaysTrue ==
    /\ \A i \in 1 .. Len(running_processes) : running_processes[i].v.auto_restart
    /\ \A p \in DOMAIN paused_processes : paused_processes[p].auto_restart

\* the restart thread has made a pass over a running project that had been
\* paused and resumed, while another project is paused
C36_Witness ==
    /\ last.op = "sweep" /\ last.ret = "True"
    /\ running_processes # <<>>
    /\ DOMAIN paused_processes # {}

\* C34: every project that is a key of running_processes or of
\* paused_processes has a record in some owner's list of user_projects, in
\* every reachable state, also when a delete of the project is handled while
\* a start of it is under way.
C34_RegisteredHasRecord ==
    Keys(running_processes) \cup DOMAIN paused_processes
        \subseteq RecordedDirs(user_projects)

\* C31: the exit of a child process and the steps of its reader thread,
\* whether its notices are sent or fail, leave running_processes,
\* paused_processes and user_projects as they are: a project all of whose
\* processes have exited stays in running_processes.
C31_ReaderChangesNoRegistry ==
    [][(\E h \in Handles : reader(h))
       => UNCHANGED <<running_processes, paused_processes, user_projects>>]_vars

\* the reader of the last living process of a running project has ended
\* with a notice that failed, and the project is still in running_processes
C31_Witness ==
    /\ last.op = "reader" /\ last.ret = "False"
    /\ \E i \in 1 .. Len(running_processes) :
          /\ last.n \in HandlesOf(running_processes[i].v)
          /\ \A h \in HandlesOf(running_processes[i].v) : procs[h] = "dead"

\* C35: every record that the onboarding puts into user_projects has its
\* main_files inside its project_dir, also when a script-selection or a
\* duration button of an earlier upload is pressed while the session is that
\* of a later upload.
C35_MainFilesInsideProjectDir ==
    \A i \in 1 .. Len(user_projects) :
        \A j \in 1 .. Len(user_projects[i].v) :
            \A f \in Range(user_projects[i].v[j].main_files) :
                f[1] = user_projects[i].v[j].project_dir

=============================================================================
